---- MODULE Spec2Model ----
(***************************************************************************)
(* State-machine model of the chat channel client, class TwitchIRC of      *)
(* src/services/twitchIRC.ts.                                              *)
(*                                                                         *)
(* Strings are sequences of one-character strings, so that startsWith,     *)
(* includes, indexOf, substring, split and toLowerCase are computed the    *)
(* way the code computes them.  The WebSocket objects the session creates  *)
(* are the environment: each has a readyState and delivers open, message,  *)
(* error and close events to the handlers connect() installed on it.       *)
(***************************************************************************)
EXTENDS Integers, Sequences, FiniteSets, TLC

(***************************************************************************)
(* Bounds of the model.                                                    *)
(***************************************************************************)
\* WebSocket objects of the session that are not CLOSED at one time
MaxSockets == 2
\* reconnect timers pending at one time
MaxTimers == 1
\* reconnect timers pending at one time in SpecTimers
MaxPending == 2
\* largest value of messageId the model lets the session reach
MaxMessageId == 2

(***************************************************************************)
(* Program constants.                                                      *)
(***************************************************************************)
\* twitchIRC.ts:14
maxReconnectAttempts == 5

\* null references: of a string field, of the ws field, of a callback field
NullStr == <<"<null>">>
NullWs == [null |-> TRUE]
NullCb == "null"
\* undefined, as the value of an absent optional string
Undefined == <<"<undefined>">>

(***************************************************************************)
(* String primitives (ECMAScript String.prototype).                        *)
(***************************************************************************)
UpperChars == <<"A","B","C","D","E","F","G","H","I","J","K","L","M",
                "N","O","P","Q","R","S","T","U","V","W","X","Y","Z">>
LowerChars == <<"a","b","c","d","e","f","g","h","i","j","k","l","m",
                "n","o","p","q","r","s","t","u","v","w","x","y","z">>
DigitChars == {"0","1","2","3","4","5","6","7","8","9"}

\* the regular expression class \w
WordChars ==
  {UpperChars[i] : i \in 1..26} \cup {LowerChars[i] : i \in 1..26}
    \cup DigitChars \cup {"_"}

ToLowerChar(c) ==
  IF \E i \in 1..26 : UpperChars[i] = c
  THEN LowerChars[CHOOSE i \in 1..26 : UpperChars[i] = c]
  ELSE c

\* s.toLowerCase()
RECURSIVE ToLowerCase(_)
ToLowerCase(s) ==
  IF s = <<>> THEN <<>>
  ELSE <<ToLowerChar(Head(s))>> \o ToLowerCase(Tail(s))

\* needle occurs in s at the 1-based position p
MatchesAt(s, needle, p) ==
  /\ p >= 1
  /\ p + Len(needle) - 1 <= Len(s)
  /\ \A k \in 1..Len(needle) : s[p + k - 1] = needle[k]

\* s.startsWith(needle)
StartsWith(s, needle) == MatchesAt(s, needle, 1)

\* s.includes(needle)
Includes(s, needle) == \E p \in 1..(Len(s) + 1) : MatchesAt(s, needle, p)

\* s.indexOf(needle): 0-based index of the first occurrence, -1 if none
IndexOf(s, needle) ==
  IF Includes(s, needle)
  THEN (CHOOSE p \in 1..(Len(s) + 1) :
          /\ MatchesAt(s, needle, p)
          /\ \A q \in 1..(p - 1) : ~MatchesAt(s, needle, q)) - 1
  ELSE -1

Min(a, b) == IF a < b THEN a ELSE b
Max(a, b) == IF a > b THEN a ELSE b

\* s.substring(from, to) with 0-based indices: arguments are clamped to
\* 0..length and swapped when from > to
Substring(s, from, to) ==
  LET f == Max(0, Min(from, Len(s)))
      t == Max(0, Min(to, Len(s)))
      lo == Min(f, t)
      hi == Max(f, t)
  IN SubSeq(s, lo + 1, hi)

\* s.substring(from)
SubstringFrom(s, from) == Substring(s, from, Len(s))

AnyPiece(piece) == TRUE

\* s.split(sep) for a separator whose occurrences cannot overlap (the code
\* splits on CR LF, on ';' and on '='): the pieces between the occurrences
Split(s, sep) ==
  LET starts == {p \in 1..Len(s) : MatchesAt(s, sep, p)}
      n == Cardinality(starts)
      nth(k) == CHOOSE p \in starts : Cardinality({q \in starts : q < p}) = k - 1
      from(k) == IF k = 1 THEN 1 ELSE nth(k - 1) + Len(sep)
      to(k) == IF k = n + 1 THEN Len(s) ELSE nth(k) - 1
  IN SelectSeq([k \in 1..(n + 1) |-> SubSeq(s, from(k), to(k))], AnyPiece)

\* a JavaScript string used as a condition: null, undefined and "" are falsy
Truthy(s) == s # NullStr /\ s # Undefined /\ s # <<>>

(***************************************************************************)
(* String literals of twitchIRC.ts.                                        *)
(***************************************************************************)
\* 'tok'
Token ==
  <<"t","o","k">>

\* 'PING'
S_PING ==
  <<"P","I","N","G">>

\* '001'
S_001 ==
  <<"0","0","1">>

\* 'JOIN'
S_JOIN ==
  <<"J","O","I","N">>

\* 'PRIVMSG'
S_PRIVMSG ==
  <<"P","R","I","V","M","S","G">>

\* '\r\n'
S_CRLF ==
  <<"\r","\n">>

\* 'PONG :tmi.twitch.tv'
S_PONG ==
  <<"P","O","N","G"," ",":","t","m","i",".","t","w","i","t","c","h",".","t",
    "v">>

\* 'PASS oauth:'
S_PASS ==
  <<"P","A","S","S"," ","o","a","u","t","h",":">>

\* 'NICK '
S_NICK ==
  <<"N","I","C","K"," ">>

\* 'CAP REQ :twitch.tv/tags twitch.tv/commands'
S_CAPREQ ==
  <<"C","A","P"," ","R","E","Q"," ",":","t","w","i","t","c","h",".","t","v",
    "/","t","a","g","s"," ","t","w","i","t","c","h",".","t","v","/","c","o",
    "m","m","a","n","d","s">>

\* 'JOIN #'
S_JOINCMD ==
  <<"J","O","I","N"," ","#">>

\* 'PART #'
S_PARTCMD ==
  <<"P","A","R","T"," ","#">>

\* 'PRIVMSG #'
S_PRIVMSGCMD ==
  <<"P","R","I","V","M","S","G"," ","#">>

\* ' :'
S_SPCOLON ==
  <<" ",":">>

\* '@'
S_AT ==
  <<"@">>

\* ' '
S_SP ==
  <<" ">>

\* ';'
S_SEMI ==
  <<";">>

\* '='
S_EQ ==
  <<"=">>

\* 'color'
S_color ==
  <<"c","o","l","o","r">>

\* 'display-name'
S_displayname ==
  <<"d","i","s","p","l","a","y","-","n","a","m","e">>

\* 'unknown'
S_unknown ==
  <<"u","n","k","n","o","w","n">>

\* '#9147ff'
SelfColor ==
  <<"#","9","1","4","7","f","f">>

\* 'msg-'
S_MSGID ==
  <<"m","s","g","-">>


(***************************************************************************)
(* parsePrivmsg (twitchIRC.ts:93-134), a function of the line and of the   *)
(* messageId counter.  The timestamp field (new Date()) is the wall clock  *)
(* and is left out of the message record.                                  *)
(***************************************************************************)
\* the decimal digits of a natural number, as `${n}` renders it
DigitOf(d) == CHOOSE c \in DigitChars :
                c = <<"0","1","2","3","4","5","6","7","8","9">>[d + 1]
RECURSIVE Decimal(_)
Decimal(n) == IF n < 10 THEN <<DigitOf(n)>>
              ELSE Decimal(n \div 10) \o <<DigitOf(n % 10)>>

\* `msg-${n}`
MsgId(n) == S_MSGID \o Decimal(n)

\* tagsStr.split(';').map(t => t.split('='))
TagEntries(tagsStr) ==
  LET parts == Split(tagsStr, S_SEMI)
  IN [i \in 1..Len(parts) |-> Split(parts[i], S_EQ)]

\* Object.fromEntries(entries)[key]: the last entry of that key wins, an
\* entry without a second element has the value undefined
TagValue(entries, key) ==
  LET idx == {i \in 1..Len(entries) : entries[i][1] = key}
  IN IF idx = {} THEN Undefined
     ELSE LET hi == CHOOSE i \in idx : \A j \in idx : j <= i
              e == entries[hi]
          IN IF Len(e) >= 2 THEN e[2] ELSE Undefined

\* a tag value taken as it is
OrUndefined_asIs(v) == v

\* v || undefined
OrUndefined(v) == IF Truthy(v) THEN v ELSE Undefined

\* length of the longest run of \w characters of s that starts at position p
WordRun(s, p) ==
  CHOOSE n \in 0..Len(s) :
    /\ \A k \in 0..(n - 1) : p + k <= Len(s) /\ s[p + k] \in WordChars
    /\ ~(p + n <= Len(s) /\ s[p + n] \in WordChars)

\* line.match(/:(\w+)!/): does the pattern match at position p
PrefixAt(s, p) ==
  /\ p <= Len(s)
  /\ s[p] = ":"
  /\ WordRun(s, p + 1) >= 1
  /\ p + 1 + WordRun(s, p + 1) <= Len(s)
  /\ s[p + 1 + WordRun(s, p + 1)] = "!"

\* prefixMatch?.[1]: the group of the leftmost match, undefined if none
PrefixLogin(s) ==
  IF \E p \in 1..Len(s) : PrefixAt(s, p)
  THEN LET p == CHOOSE q \in 1..Len(s) :
                  PrefixAt(s, q) /\ \A r \in 1..(q - 1) : ~PrefixAt(s, r)
       IN Substring(s, p, p + WordRun(s, p + 1))
  ELSE Undefined

\* the tag entries of a line: empty unless the line starts with '@'
LineTags(line) ==
  IF StartsWith(line, S_AT)
  THEN TagEntries(Substring(line, 1, IndexOf(line, S_SP)))
  ELSE <<>>

\* a parsePrivmsg without the second early return
ParsesPrivmsg_noSeparatorCheck(line) == IndexOf(line, S_PRIVMSG) # -1

\* does parsePrivmsg return a message (TRUE) or null (FALSE): the two
\* early returns (twitchIRC.ts:110-115)
ParsesPrivmsg(line) ==
  /\ IndexOf(line, S_PRIVMSG) # -1
  /\ IndexOf(SubstringFrom(line, IndexOf(line, S_PRIVMSG)), S_SPCOLON) # -1

\* color, message text and username as parsePrivmsg computes them
\* (twitchIRC.ts:96-121)
PrivmsgFields(line) ==
  LET tags == LineTags(line)
      color == OrUndefined(TagValue(tags, S_color))
      displayName == OrUndefined(TagValue(tags, S_displayname))
      afterPrivmsg == SubstringFrom(line, IndexOf(line, S_PRIVMSG))
      colonIndex == IndexOf(afterPrivmsg, S_SPCOLON)
      messageText == SubstringFrom(afterPrivmsg, colonIndex + 2)
      prefix == PrefixLogin(line)
      name == IF Truthy(displayName) THEN displayName
              ELSE IF Truthy(prefix) THEN prefix ELSE S_unknown
  IN [username |-> name, message |-> messageText, color |-> color]

\* the object parsePrivmsg returns (twitchIRC.ts:123-129) for these fields
\* when the counter is mid before the call; num is the number in the id
MakeMessage(fields, mid) ==
  [id |-> MsgId(mid + 1), num |-> mid + 1, username |-> fields.username,
   message |-> fields.message, color |-> fields.color]

\* the message parsePrivmsg returns when the counter is mid before the call
parsePrivmsg(line, mid) == MakeMessage(PrivmsgFields(line), mid)

(***************************************************************************)
(* Inputs: what the caller passes and what the server sends.               *)
(***************************************************************************)
\* 'PING :tmi.twitch.tv'
L_Ping ==
  <<"P","I","N","G"," ",":","t","m","i",".","t","w","i","t","c","h",".","t",
    "v">>

\* 'PING 001 JOIN PRIVMSG #a :x'
L_PingAll ==
  <<"P","I","N","G"," ","0","0","1"," ","J","O","I","N"," ","P","R","I","V",
    "M","S","G"," ","#","a"," ",":","x">>

\* ':tmi.twitch.tv 001 u :Welcome, GLHF!'
L_Welcome ==
  <<":","t","m","i",".","t","w","i","t","c","h",".","t","v"," ","0","0","1",
    " ","u"," ",":","W","e","l","c","o","m","e",","," ","G","L","H","F","!">>

\* ':u!u@u.tmi.twitch.tv JOIN #a'
L_Join ==
  <<":","u","!","u","@","u",".","t","m","i",".","t","w","i","t","c","h",".",
    "t","v"," ","J","O","I","N"," ","#","a">>

\* '@display-name=Al;color=#F00 :al!al@al.tmi.twitch.tv PRIVMSG #a :gg wp'
L_Privmsg ==
  <<"@","d","i","s","p","l","a","y","-","n","a","m","e","=","A","l",";","c",
    "o","l","o","r","=","#","F","0","0"," ",":","a","l","!","a","l","@","a",
    "l",".","t","m","i",".","t","w","i","t","c","h",".","t","v"," ","P","R",
    "I","V","M","S","G"," ","#","a"," ",":","g","g"," ","w","p">>

\* ':tmi.twitch.tv CAP * ACK :twitch.tv/tags'
L_Other ==
  <<":","t","m","i",".","t","w","i","t","c","h",".","t","v"," ","C","A","P",
    " ","*"," ","A","C","K"," ",":","t","w","i","t","c","h",".","t","v","/",
    "t","a","g","s">>

\* ':al!al@al.tmi.twitch.tv PRIVMSG #a :gg wp'
L_NoTags ==
  <<":","a","l","!","a","l","@","a","l",".","t","m","i",".","t","w","i","t",
    "c","h",".","t","v"," ","P","R","I","V","M","S","G"," ","#","a"," ",":",
    "g","g"," ","w","p">>

\* 'hello'
T_Hello ==
  <<"h","e","l","l","o">>


\* channel names the caller passes to connect and changeChannel
ChannelInputs == {<<"A">>, <<"b">>}
\* login names the caller passes to the constructor
LoginInputs == {<<"U">>}
\* the caller's callbacks, by identity, as pairs <<onMessage,
\* onConnectionChange>>; onConnectionChange is optional and NullCb stands
\* for an omitted argument
CallbackInputs == {<<"m1", "c1">>, <<"m2", NullCb>>}
\* texts the caller sends
TextInputs == {T_Hello}
\* transmissions of the server: one line, or several joined by CR LF
DataInputs ==
  {L_Ping, L_PingAll, L_Welcome, L_Join, L_Privmsg, L_Other,
   L_Welcome \o S_CRLF \o L_Join,
   L_Ping \o S_CRLF \o S_CRLF \o L_Privmsg,
   L_Privmsg \o S_CRLF \o L_NoTags}

(***************************************************************************)
(* Inputs of the line-by-line specification SpecLines: chat lines with and *)
(* without tags, prefix and body.                                          *)
(***************************************************************************)
\* 'PRIVMSG #a :hi'
L_Bare ==
  <<"P","R","I","V","M","S","G"," ","#","a"," ",":","h","i">>

\* 'PRIVMSG #a :yo :bob! hi'
L_BodyPrefix ==
  <<"P","R","I","V","M","S","G"," ","#","a"," ",":","y","o"," ",":","b","o",
    "b","!"," ","h","i">>

\* '@display-name=Al :al!al@al.tmi.twitch.tv PRIVMSG #a'
L_NoBody ==
  <<"@","d","i","s","p","l","a","y","-","n","a","m","e","=","A","l"," ",":",
    "a","l","!","a","l","@","a","l",".","t","m","i",".","t","w","i","t","c",
    "h",".","t","v"," ","P","R","I","V","M","S","G"," ","#","a">>

\* 'PRIVMSG #a'
L_NoBodyBare ==
  <<"P","R","I","V","M","S","G"," ","#","a">>

\* ':al!al@al.tmi.twitch.tv PRIVMSG #a :JOIN 001'
L_ChatJoin001 ==
  <<":","a","l","!","a","l","@","a","l",".","t","m","i",".","t","w","i","t",
    "c","h",".","t","v"," ","P","R","I","V","M","S","G"," ","#","a"," ",":",
    "J","O","I","N"," ","0","0","1">>

\* '@display-name=Al;color= :al!al@al.tmi.twitch.tv PRIVMSG #a :hi'
L_EmptyColor ==
  <<"@","d","i","s","p","l","a","y","-","n","a","m","e","=","A","l",";","c",
    "o","l","o","r","="," ",":","a","l","!","a","l","@","a","l",".","t","m",
    "i",".","t","w","i","t","c","h",".","t","v"," ","P","R","I","V","M","S",
    "G"," ","#","a"," ",":","h","i">>

\* '@color=#F00;display-name= :al!al@al.tmi.twitch.tv PRIVMSG #a :hi'
L_EmptyName ==
  <<"@","c","o","l","o","r","=","#","F","0","0",";","d","i","s","p","l","a",
    "y","-","n","a","m","e","="," ",":","a","l","!","a","l","@","a","l",".",
    "t","m","i",".","t","w","i","t","c","h",".","t","v"," ","P","R","I","V",
    "M","S","G"," ","#","a"," ",":","h","i">>

\* '@display-name=;color= PRIVMSG #a :hi'
L_EmptyNameBare ==
  <<"@","d","i","s","p","l","a","y","-","n","a","m","e","=",";","c","o","l",
    "o","r","="," ","P","R","I","V","M","S","G"," ","#","a"," ",":","h","i">>

\* '@display-name= PRIVMSG #a :yo :bob! hi'
L_EmptyNameBodyPrefix ==
  <<"@","d","i","s","p","l","a","y","-","n","a","m","e","="," ","P","R","I",
    "V","M","S","G"," ","#","a"," ",":","y","o"," ",":","b","o","b","!"," ",
    "h","i">>

\* single lines the server sends to a session whose transport is open
LineInputs ==
  {L_Privmsg, L_NoTags, L_Bare, L_BodyPrefix, L_NoBody, L_NoBodyBare,
   L_Join, L_Other, L_Ping, L_PingAll, L_Welcome, L_ChatJoin001,
   L_EmptyColor, L_EmptyName, L_EmptyNameBare, L_EmptyNameBodyPrefix}

\* 'PING x<LF>PRIVMSG #a :y', one line: a line feed alone is no delimiter
L_PingLF ==
  <<"P","I","N","G"," ","x","\n","P","R","I","V","M","S","G"," ","#","a",
    " ",":","y">>

\* s1 + '\r\n' + s2 + ... for the segments of segs
RECURSIVE JoinCRLF(_)
JoinCRLF(segs) ==
  IF Len(segs) = 0 THEN <<>>
  ELSE IF Len(segs) = 1 THEN segs[1]
  ELSE Head(segs) \o S_CRLF \o JoinCRLF(Tail(segs))

\* transmissions that bundle several lines, as the sequences of segments
\* the server joins by CR LF: empty segments between, before and after
\* lines, transmissions and callbacks in alternation, a line feed without
\* carriage return
Bundles ==
  {<<L_Ping, <<>>, L_Privmsg, L_Ping>>,
   <<L_Welcome, L_Join, L_NoTags>>,
   <<<<>>, L_Join, L_Welcome, L_Welcome, <<>>>>,
   <<L_PingLF, L_Other, L_Join>>,
   <<L_Privmsg, L_Bare>>}
BundleInputs == {JoinCRLF(b) : b \in Bundles}

\* transmissions of the server during the handshake, for SpecReconnect: the
\* welcome line, the welcome line twice, the join confirmation
HandshakeInputs ==
  {L_Welcome, L_Welcome \o S_CRLF \o L_Welcome, L_Join}

(***************************************************************************)
(* State.                                                                  *)
(*                                                                         *)
(* The handlers connect() installs on a WebSocket object are closures over *)
(* the session only, so the objects the ws field no longer refers to are   *)
(* told apart by their readyState alone: they are kept as counts.          *)
(***************************************************************************)
VARIABLES
  \* fields of TwitchIRC (twitchIRC.ts:7-16); ws is NullWs or the WebSocket
  \* object the field refers to, a record with its readyState
  ws, token, username, channel, onMessage, onConnectionChange,
  reconnectAttempts, messageId, hasJoined,
  \* the environment: the WebSocket objects the session created that the ws
  \* field does not refer to and that are not yet CLOSED, counted by
  \* readyState; the number of pending setTimeout callbacks
  others, timers,
  \* history of the last step: the operation or event, the lines it
  \* transmitted on the transport of the ws field, the callbacks it invoked,
  \* what it returned, whether it threw
  lastOp, tx, calls, ret, threw,
  \* history: whether a JOIN command was transmitted on the current
  \* transport ("sent") and whether a JoinAck answered it ("acked"); how many
  \* pending timers were scheduled before a disconnect(); the largest id
  \* number delivered to onMessage so far; what created the transport of
  \* the ws field while it is not closed, a connect() of the caller
  \* ("connect") or the timer callback of attemptReconnect ("timer")
  joinState, staleTimers, delivered, openedBy

progVars == <<ws, token, username, channel, onMessage, onConnectionChange,
              reconnectAttempts, messageId, hasJoined>>
envVars == <<others, timers>>
histVars == <<lastOp, tx, calls, ret, threw, joinState, staleTimers,
              delivered, openedBy>>
vars == <<progVars, envVars, histVars>>

\* the WebSocket object new WebSocket(url) returns
NewSocket == [readyState |-> "CONNECTING"]

\* is the object w (not null) still going to deliver events
Live(w) == w.readyState # "CLOSED"

\* number of WebSocket objects of the session that are not CLOSED
LiveSockets ==
  others.CONNECTING + others.OPEN + others.CLOSING
    + (IF ws # NullWs /\ Live(ws) THEN 1 ELSE 0)

\* the counts after the object w stops being the one the ws field names
Retire(w) ==
  IF w # NullWs /\ Live(w)
  THEN [others EXCEPT ![w.readyState] = @ + 1]
  ELSE others

\* the connection phase of section 4.2 of the specification, read off the
\* current transport
ConnState ==
  IF ws = NullWs THEN "Disconnected"
  ELSE IF ws.readyState = "CONNECTING" THEN "Connecting"
  ELSE IF ws.readyState # "OPEN" THEN "Disconnected"
  ELSE IF joinState = "none" THEN "Authenticating"
  ELSE IF joinState = "sent" THEN "Joining"
  ELSE "Joined"

\* constructor (twitchIRC.ts:18-21) and the field initialisers
Init ==
  /\ ws = NullWs
  /\ token = Token
  /\ username \in {ToLowerCase(u) : u \in LoginInputs}
  /\ channel = NullStr
  /\ onMessage = NullCb
  /\ onConnectionChange = NullCb
  /\ reconnectAttempts = 0
  /\ messageId = 0
  /\ hasJoined = FALSE
  /\ others = [CONNECTING |-> 0, OPEN |-> 0, CLOSING |-> 0]
  /\ timers = 0
  /\ lastOp = [name |-> "new"]
  /\ tx = <<>>
  /\ calls = <<>>
  /\ ret = "void"
  /\ threw = FALSE
  /\ joinState = "none"
  /\ staleTimers = 0
  /\ delivered = 0
  /\ openedBy = "none"

\* WebSocket.send(line) on the object w: throws InvalidStateError while
\* CONNECTING, transmits while OPEN, discards the data while CLOSING or CLOSED
SendOutcome(w) ==
  IF w.readyState = "CONNECTING" THEN "throws"
  ELSE IF w.readyState = "OPEN" THEN "sent"
  ELSE "dropped"

(***************************************************************************)
(* Steps of a handler.  A handler runs on an accumulator acc: the fields   *)
(* it may write (hasJoined, messageId), the lines transmitted (tx), the    *)
(* callbacks invoked (calls), the order in which transmissions ("tx") and  *)
(* callbacks ("call") followed each other, whether an exception ended it   *)
(* (threw), and                                                            *)
(* the joinState and delivered histories.  The caller's callbacks do not   *)
(* call back into the session.  An action binds the accumulator its        *)
(* handler ends with by \E acc \in {...}, which evaluates it once.         *)
(***************************************************************************)
StartAcc ==
  [hasJoined |-> hasJoined, messageId |-> messageId, tx |-> <<>>,
   calls |-> <<>>, order |-> <<>>, threw |-> FALSE,
   joinState |-> joinState, delivered |-> delivered]

\* w.send(line) for the object w of the ws field, not null
Send(acc, w, line) ==
  IF acc.threw THEN acc
  ELSE IF SendOutcome(w) = "throws" THEN [acc EXCEPT !.threw = TRUE]
  ELSE IF SendOutcome(w) = "sent"
    THEN [acc EXCEPT !.tx = Append(@, line),
                     !.order = Append(@, "tx"),
                     !.joinState =
                        IF StartsWith(line, S_JOINCMD) THEN "sent" ELSE @]
  ELSE acc

\* this.onMessage?.(message)
CallOnMessage(acc, message) ==
  IF onMessage = NullCb THEN acc
  ELSE [acc EXCEPT
          !.calls = Append(@, [fn |-> "onMessage", cb |-> onMessage,
                               msg |-> message]),
          !.order = Append(@, "call"),
          !.delivered = Max(@, message.num)]

\* this.onConnectionChange?.(connected)
CallOnConnectionChange(acc, connected) ==
  IF onConnectionChange = NullCb THEN acc
  ELSE [acc EXCEPT
          !.calls = Append(@, [fn |-> "onConnectionChange",
                               cb |-> onConnectionChange,
                               connected |-> connected]),
          !.order = Append(@, "call")]

\* authenticate (twitchIRC.ts:51-57) when this.ws is w
authenticate(acc, w) ==
  IF w = NullWs \/ w.readyState # "OPEN" THEN acc
  ELSE Send(Send(Send(acc, w, S_PASS \o token), w, S_NICK \o username),
            w, S_CAPREQ)

\* a joinChannel whose channel test is inverted
joinChannel_unlessChannel(acc, ch) ==
  IF ws = NullWs \/ Truthy(ch) THEN acc
  ELSE Send(acc, ws, S_JOINCMD \o ch)

\* joinChannel (twitchIRC.ts:136-139) when this.channel is ch
joinChannel(acc, ch) ==
  IF ws = NullWs \/ ~Truthy(ch) THEN acc
  ELSE Send(acc, ws, S_JOINCMD \o ch)

\* data.split('\r\n').filter(line => line.length > 0)
NonEmptyLine(line) == Len(line) > 0
LinesOf(data) == SelectSeq(Split(data, S_CRLF), NonEmptyLine)

\* tables of the operators above, computed once: the lines of every
\* transmission of DataInputs, and for each line the tests of the loop of
\* handleMessage and the fields parsePrivmsg extracts
DataTable ==
  {[data |-> d, lines |-> LinesOf(d)] :
     d \in DataInputs \cup LineInputs \cup HandshakeInputs
            \cup BundleInputs}
DataLines(d) == (CHOOSE r \in DataTable : r.data = d).lines
AllLines ==
  UNION {{r.lines[i] : i \in 1..Len(r.lines)} : r \in DataTable}
LineTable ==
  {[line |-> l,
    startsWithPING |-> StartsWith(l, S_PING),
    includes001 |-> Includes(l, S_001),
    includesJOIN |-> Includes(l, S_JOIN),
    includesPRIVMSG |-> Includes(l, S_PRIVMSG),
    parses |-> ParsesPrivmsg(l),
    fields |-> PrivmsgFields(l)] : l \in AllLines}
LineTests(l) == CHOOSE r \in LineTable : r.line = l

\* an auth test without the guard
AuthAck_noGuard(acc, line) == LineTests(line).includes001

\* the test of the auth branch (twitchIRC.ts:70)
AuthAck(acc, line) == LineTests(line).includes001 /\ ~acc.hasJoined

\* a loop body that tests for a chat line before the join confirmation
HandleLine_chatFirst(acc, line, current) ==
  IF acc.threw THEN acc
  ELSE IF LineTests(line).startsWithPING
    THEN (IF ws = NullWs THEN acc ELSE Send(acc, ws, S_PONG))
  ELSE IF AuthAck(acc, line)
    THEN joinChannel([acc EXCEPT !.hasJoined = TRUE], channel)
  ELSE IF LineTests(line).includesPRIVMSG
    THEN (IF LineTests(line).parses
          THEN CallOnMessage([acc EXCEPT !.messageId = @ + 1],
                             MakeMessage(LineTests(line).fields,
                                         acc.messageId))
          ELSE acc)
  ELSE IF LineTests(line).includesJOIN /\ Truthy(channel)
    THEN CallOnConnectionChange(
           [acc EXCEPT !.joinState =
                          IF current /\ @ = "sent" THEN "acked" ELSE @],
           TRUE)
  ELSE acc

\* the body of the loop of handleMessage (twitchIRC.ts:62-90) for one line;
\* current tells whether the message event is one of the object of the ws
\* field
HandleLine(acc, line, current) ==
  IF acc.threw THEN acc
  ELSE IF LineTests(line).startsWithPING
    THEN (IF ws = NullWs THEN acc ELSE Send(acc, ws, S_PONG))
  ELSE IF AuthAck(acc, line)
    THEN joinChannel([acc EXCEPT !.hasJoined = TRUE], channel)
  ELSE IF LineTests(line).includesJOIN /\ Truthy(channel)
    THEN CallOnConnectionChange(
           [acc EXCEPT !.joinState =
                          IF current /\ @ = "sent" THEN "acked" ELSE @],
           TRUE)
  ELSE IF LineTests(line).includesPRIVMSG
    THEN (IF LineTests(line).parses
          THEN CallOnMessage([acc EXCEPT !.messageId = @ + 1],
                             MakeMessage(LineTests(line).fields,
                                         acc.messageId))
          ELSE acc)
  ELSE acc

\* a loop that runs through the lines from the last to the first
RECURSIVE HandleLines_lastFirst(_, _, _)
HandleLines_lastFirst(acc, lines, current) ==
  IF lines = <<>> THEN acc
  ELSE HandleLine(HandleLines_lastFirst(acc, Tail(lines), current),
                  Head(lines), current)

RECURSIVE HandleLines(_, _, _)
HandleLines(acc, lines, current) ==
  IF lines = <<>> THEN acc
  ELSE HandleLines(HandleLine(acc, Head(lines), current), Tail(lines),
                   current)

\* handleMessage (twitchIRC.ts:59-91)
handleMessage(data, current) ==
  HandleLines(StartAcc, DataLines(data), current)

(***************************************************************************)
(* Operations of the caller.                                               *)
(***************************************************************************)
\* a connect that forgets to store the channel
doConnect_keepsChannel(c, m, cc) ==
  /\ channel' = channel
  /\ onMessage' = m
  /\ onConnectionChange' = cc
  /\ ws' = NewSocket
  /\ others' = Retire(ws)
  /\ joinState' = "none"

\* the assignments of connect (twitchIRC.ts:24-28); the handlers it
\* installs (twitchIRC.ts:30-48) are the actions WsOpen .. WsClose below.
\* The object the ws field named before keeps its handlers.
doConnect(c, m, cc) ==
  /\ channel' = ToLowerCase(c)
  /\ onMessage' = m
  /\ onConnectionChange' = cc
  /\ ws' = NewSocket
  /\ others' = Retire(ws)
  /\ joinState' = "none"

\* a connect that starts a fresh reconnect budget
connect_resetsAttempts(c, m, cc) ==
  /\ LiveSockets < MaxSockets
  /\ doConnect(c, m, cc)
  /\ lastOp' = [name |-> "connect"]
  /\ tx' = <<>>
  /\ calls' = <<>>
  /\ ret' = "void"
  /\ threw' = FALSE
  /\ openedBy' = "connect"
  /\ reconnectAttempts' = 0
  /\ UNCHANGED <<token, username, messageId, hasJoined, timers,
                 staleTimers, delivered>>

\* connect(channel, onMessage, onConnectionChange?) (twitchIRC.ts:23-49)
connect(c, m, cc) ==
  /\ LiveSockets < MaxSockets
  /\ doConnect(c, m, cc)
  /\ lastOp' = [name |-> "connect"]
  /\ tx' = <<>>
  /\ calls' = <<>>
  /\ ret' = "void"
  /\ threw' = FALSE
  /\ openedBy' = "connect"
  /\ UNCHANGED <<token, username, reconnectAttempts, messageId, hasJoined,
                 timers, staleTimers, delivered>>

\* the guard of sendMessage (twitchIRC.ts:160)
CanSend == ws # NullWs /\ ws.readyState = "OPEN" /\ Truthy(channel)

\* a self-echo whose id is built from messageId++ in place of ++messageId
SelfEcho_postIncrement(text) ==
  [id |-> MsgId(messageId), num |-> messageId,
   username |-> username, message |-> text, color |-> SelfColor]

\* the self-echo of sendMessage (twitchIRC.ts:168-174); num is the number
\* in the id
SelfEcho(text) ==
  [id |-> MsgId(messageId + 1), num |-> messageId + 1,
   username |-> username, message |-> text, color |-> SelfColor]

\* the body of sendMessage after its guard (twitchIRC.ts:165-174)
SendAndEcho(text) ==
  CallOnMessage(
    Send([StartAcc EXCEPT !.messageId = @ + 1], ws,
         S_PRIVMSGCMD \o channel \o S_SPCOLON \o text),
    SelfEcho(text))

\* sendMessage(message) (twitchIRC.ts:159-177)
sendMessage(text) ==
  \E acc \in {IF CanSend THEN SendAndEcho(text) ELSE StartAcc} :
     /\ acc.messageId <= MaxMessageId
     /\ lastOp' = [name |-> "sendMessage", pre |-> ConnState,
                   text |-> text]
     /\ messageId' = acc.messageId
     /\ tx' = acc.tx
     /\ calls' = acc.calls
     /\ delivered' = acc.delivered
     /\ ret' = IF CanSend THEN "true" ELSE "false"
     /\ threw' = acc.threw
     /\ UNCHANGED <<ws, token, username, channel, onMessage,
                    onConnectionChange, reconnectAttempts, hasJoined,
                    others, timers, joinState, staleTimers, openedBy>>

\* the object of the ws field after ws.close(): CLOSING unless already
\* CLOSED; its close event follows later
Closed(w) ==
  IF Live(w) THEN [w EXCEPT !.readyState = "CLOSING"] ELSE w

\* a disconnect that forgets the assignment hasJoined = false
disconnectClears_keepsHasJoined ==
  /\ ws' = NullWs
  /\ channel' = NullStr
  /\ onMessage' = NullCb
  /\ onConnectionChange' = NullCb
  /\ hasJoined' = hasJoined

\* a disconnect that forgets the assignment onConnectionChange = null
disconnectClears_keepsOnConnectionChange ==
  /\ ws' = NullWs
  /\ channel' = NullStr
  /\ onMessage' = NullCb
  /\ onConnectionChange' = onConnectionChange
  /\ hasJoined' = FALSE

\* the assignments of disconnect (twitchIRC.ts:183-187)
disconnectClears ==
  /\ ws' = NullWs
  /\ channel' = NullStr
  /\ onMessage' = NullCb
  /\ onConnectionChange' = NullCb
  /\ hasJoined' = FALSE

\* a disconnect that also starts a fresh reconnect budget
disconnectKeeps_resetsAttempts ==
  /\ reconnectAttempts' = 0
  /\ UNCHANGED <<token, username, messageId>>

\* a disconnect that also restarts the message ids
disconnectKeeps_resetsMessageId ==
  /\ messageId' = 0
  /\ UNCHANGED <<token, username, reconnectAttempts>>

\* the fields disconnect has no assignment to (twitchIRC.ts:179-188)
disconnectKeeps ==
  UNCHANGED <<token, username, reconnectAttempts, messageId>>

\* disconnect() (twitchIRC.ts:179-188); the timers attemptReconnect
\* scheduled stay pending
disconnect ==
  /\ others' = IF ws # NullWs THEN Retire(Closed(ws)) ELSE others
  /\ disconnectClears
  /\ disconnectKeeps
  /\ lastOp' = [name |-> "disconnect",
                again |-> lastOp.name = "disconnect"]
  /\ tx' = <<>>
  /\ calls' = <<>>
  /\ ret' = "void"
  /\ threw' = FALSE
  /\ joinState' = "none"
  /\ staleTimers' = timers
  /\ openedBy' = "none"
  /\ UNCHANGED <<timers, delivered>>

\* the first statement of changeChannel (twitchIRC.ts:191-193): PART for
\* the old channel when one is stored, this.ws?.send
PartOld(acc) ==
  IF Truthy(channel) /\ ws # NullWs
  THEN Send(acc, ws, S_PARTCMD \o channel)
  ELSE acc

\* a changeChannel that joins the new channel before it parts the old one
ChangeChannelSends_joinFirst(newChannel) ==
  IF joinChannel(StartAcc, ToLowerCase(newChannel)).threw
  THEN joinChannel(StartAcc, ToLowerCase(newChannel))
  ELSE PartOld(joinChannel(StartAcc, ToLowerCase(newChannel)))

\* the commands of changeChannel (twitchIRC.ts:191-195): PART for the old
\* channel, then joinChannel for the new one unless the PART send threw
ChangeChannelSends(newChannel) ==
  IF PartOld(StartAcc).threw THEN PartOld(StartAcc)
  ELSE joinChannel(PartOld(StartAcc), ToLowerCase(newChannel))

\* changeChannel(newChannel) (twitchIRC.ts:190-196); an exception of the
\* PART send leaves the stored channel as it was
changeChannel(c) ==
  \E acc \in {ChangeChannelSends(c)} :
     /\ channel' = IF PartOld(StartAcc).threw THEN channel
                   ELSE ToLowerCase(c)
     /\ lastOp' = [name |-> "changeChannel", pre |-> ConnState,
                   old |-> channel, new |-> c]
     /\ tx' = acc.tx
     /\ calls' = acc.calls
     /\ joinState' = acc.joinState
     /\ ret' = "void"
     /\ threw' = acc.threw
     /\ UNCHANGED <<ws, token, username, onMessage, onConnectionChange,
                    reconnectAttempts, messageId, hasJoined, others,
                    timers, staleTimers, delivered, openedBy>>

(***************************************************************************)
(* Events of the WebSocket objects and of the reconnect timers.  current   *)
(* tells whether the event is one of the object the ws field refers to or  *)
(* one of another object the session created.                              *)
(***************************************************************************)
\* does an object with this readyState exist, as the current one or not
Exists(current, state) ==
  IF current THEN ws # NullWs /\ ws.readyState = state
  ELSE others[state] > 0

\* onopen (twitchIRC.ts:30-34)
WsOpen(current) ==
  /\ Exists(current, "CONNECTING")
  /\ \E w \in {IF current THEN [ws EXCEPT !.readyState = "OPEN"] ELSE ws} :
     \E acc \in {authenticate(StartAcc, w)} :
     /\ ws' = w
     /\ others' = IF current THEN others
                  ELSE [others EXCEPT !.CONNECTING = @ - 1, !.OPEN = @ + 1]
     /\ reconnectAttempts' = 0
     /\ lastOp' = [name |-> "open", current |-> current]
     /\ tx' = acc.tx
     /\ calls' = acc.calls
     /\ ret' = "void"
     /\ threw' = acc.threw
     /\ UNCHANGED <<token, username, channel, onMessage,
                    onConnectionChange, messageId, hasJoined, timers,
                    joinState, staleTimers, delivered, openedBy>>

\* onmessage (twitchIRC.ts:36-38): a message event is delivered only while
\* the object is OPEN
WsMessage(current, data) ==
  /\ Exists(current, "OPEN")
  /\ \E acc \in {handleMessage(data, current)} :
     /\ acc.messageId <= MaxMessageId
     /\ hasJoined' = acc.hasJoined
     /\ messageId' = acc.messageId
     /\ lastOp' = [name |-> "message", current |-> current, data |-> data,
                   pre |-> ConnState, order |-> acc.order]
     /\ tx' = acc.tx
     /\ calls' = acc.calls
     /\ ret' = "void"
     /\ threw' = acc.threw
     /\ joinState' = acc.joinState
     /\ delivered' = acc.delivered
     /\ UNCHANGED <<ws, token, username, channel, onMessage,
                    onConnectionChange, reconnectAttempts, others, timers,
                    staleTimers, openedBy>>

\* an onerror that signals a connection loss the way onclose does
WsError_signals(current) ==
  /\ \E state \in {"CONNECTING", "OPEN", "CLOSING"} : Exists(current, state)
  /\ lastOp' = [name |-> "error", current |-> current]
  /\ tx' = <<>>
  /\ calls' = CallOnConnectionChange(StartAcc, FALSE).calls
  /\ ret' = "void"
  /\ threw' = FALSE
  /\ UNCHANGED <<progVars, envVars, joinState, staleTimers, delivered,
                 openedBy>>

\* onerror (twitchIRC.ts:40-42): logs only
WsError(current) ==
  /\ \E state \in {"CONNECTING", "OPEN", "CLOSING"} : Exists(current, state)
  /\ lastOp' = [name |-> "error", current |-> current]
  /\ tx' = <<>>
  /\ calls' = <<>>
  /\ ret' = "void"
  /\ threw' = FALSE
  /\ UNCHANGED <<progVars, envVars, joinState, staleTimers, delivered,
                 openedBy>>

\* a delay without the cap of 30 seconds
ReconnectDelay_uncapped(n) == 1000 * 2^n

\* the delay of the reconnect scheduled when reconnectAttempts has become n
\* (twitchIRC.ts:148), in milliseconds
ReconnectDelay(n) == Min(1000 * 2^n, 30000)

\* the delay recorded for a close event that calls no setTimeout
\* (twitchIRC.ts:142-145)
NoDelay == -1

\* a budget guard that is off by one (> in place of >=)
Schedules_offByOne == reconnectAttempts <= maxReconnectAttempts

\* the guard of attemptReconnect (twitchIRC.ts:142): does it schedule
Schedules == reconnectAttempts < maxReconnectAttempts

\* onclose (twitchIRC.ts:44-48) of an object whose readyState was state,
\* with attemptReconnect (twitchIRC.ts:141-157) up to the setTimeout call,
\* whose delay the history records; the object is CLOSED when the event is
\* delivered.  The code puts no limit on the timers pending at once; the
\* model keeps at most bound of them.
WsCloseWithin(bound, current, state) ==
  /\ state \in {"CONNECTING", "OPEN", "CLOSING"}
  /\ Exists(current, state)
  /\ Schedules => timers < bound
  /\ \E acc \in {CallOnConnectionChange(StartAcc, FALSE)} :
     /\ ws' = IF current THEN [ws EXCEPT !.readyState = "CLOSED"] ELSE ws
     /\ others' = IF current THEN others
                  ELSE [others EXCEPT ![state] = @ - 1]
     /\ reconnectAttempts' =
          IF Schedules THEN reconnectAttempts + 1 ELSE reconnectAttempts
     /\ timers' = IF Schedules THEN timers + 1 ELSE timers
     /\ lastOp' = [name |-> "close", current |-> current,
                   scheduled |-> Schedules,
                   delay |-> IF Schedules
                             THEN ReconnectDelay(reconnectAttempts + 1)
                             ELSE NoDelay]
     /\ tx' = acc.tx
     /\ calls' = acc.calls
     /\ ret' = "void"
     /\ threw' = acc.threw
     /\ joinState' = IF current THEN "none" ELSE joinState
     /\ openedBy' = IF current THEN "none" ELSE openedBy
     /\ UNCHANGED <<token, username, channel, onMessage,
                    onConnectionChange, messageId, hasJoined, staleTimers,
                    delivered>>

\* onclose with the timers of the session bounded by MaxTimers
WsClose(current, state) == WsCloseWithin(MaxTimers, current, state)

\* a timer callback that also asks for the optional callback
TimerConnects_needsConnectionCallback ==
  Truthy(channel) /\ onMessage # NullCb /\ onConnectionChange # NullCb

\* the guard of the timer callback (twitchIRC.ts:153)
TimerConnects == Truthy(channel) /\ onMessage # NullCb

\* the setTimeout callback of attemptReconnect (twitchIRC.ts:152-156);
\* stale tells whether the timer was scheduled before a disconnect()
TimerFire(stale) ==
  /\ IF stale THEN staleTimers > 0 ELSE timers - staleTimers > 0
  /\ timers' = timers - 1
  /\ staleTimers' = IF stale THEN staleTimers - 1 ELSE staleTimers
  /\ IF TimerConnects
     THEN /\ LiveSockets < MaxSockets
          /\ doConnect(channel, onMessage, onConnectionChange)
          /\ openedBy' = "timer"
     ELSE UNCHANGED <<ws, channel, onMessage, onConnectionChange, others,
                      joinState, openedBy>>
  /\ lastOp' = [name |-> "timer", stale |-> stale,
                connected |-> TimerConnects]
  /\ tx' = <<>>
  /\ calls' = <<>>
  /\ ret' = "void"
  /\ threw' = FALSE
  /\ UNCHANGED <<token, username, reconnectAttempts, messageId, hasJoined,
                 delivered>>

Next ==
  \/ \E c \in ChannelInputs, cbs \in CallbackInputs :
        connect(c, cbs[1], cbs[2])
  \/ \E text \in TextInputs : sendMessage(text)
  \/ \E c \in ChannelInputs : changeChannel(c)
  \/ disconnect
  \/ \E current \in BOOLEAN : WsOpen(current)
  \/ \E current \in BOOLEAN, data \in DataInputs : WsMessage(current, data)
  \/ \E current \in BOOLEAN : WsError(current)
  \/ \E current \in BOOLEAN, state \in {"CONNECTING", "OPEN", "CLOSING"} :
        WsClose(current, state)
  \/ \E stale \in BOOLEAN : TimerFire(stale)

Spec == Init /\ [][Next]_vars

(***************************************************************************)
(* SpecReconnect: the connection life cycle under the guarantee of         *)
(* setTimeout (twitchIRC.ts:152) that a pending callback is run.  The      *)
(* server sends the lines of the handshake only and the caller sends no    *)
(* chat text: neither touches a transport, a timer or a stored callback.   *)
(***************************************************************************)
ReconnectNext ==
  \/ \E c \in ChannelInputs, cbs \in CallbackInputs :
        connect(c, cbs[1], cbs[2])
  \/ \E c \in ChannelInputs : changeChannel(c)
  \/ disconnect
  \/ \E current \in BOOLEAN : WsOpen(current)
  \/ \E current \in BOOLEAN, data \in HandshakeInputs :
        WsMessage(current, data)
  \/ \E current \in BOOLEAN : WsError(current)
  \/ \E current \in BOOLEAN, state \in {"CONNECTING", "OPEN", "CLOSING"} :
        WsClose(current, state)
  \/ \E stale \in BOOLEAN : TimerFire(stale)

TimersFire == WF_vars(TimerFire(TRUE)) /\ WF_vars(TimerFire(FALSE))

SpecReconnect == Init /\ [][ReconnectNext]_vars /\ TimersFire

(***************************************************************************)
(* SpecLines: one line at a time on an open transport.  The session starts *)
(* in any of the states with an open current transport, no other transport *)
(* and no timer that Spec reaches (there, as here, right after an error    *)
(* event, which changes nothing), and receives the lines of LineInputs.    *)
(***************************************************************************)
LineInit ==
  /\ ws = [readyState |-> "OPEN"]
  /\ token = Token
  /\ username \in {ToLowerCase(u) : u \in LoginInputs}
  /\ channel \in {ToLowerCase(c) : c \in ChannelInputs}
  /\ \E cbs \in CallbackInputs :
        onMessage = cbs[1] /\ onConnectionChange = cbs[2]
  /\ reconnectAttempts = 0
  /\ messageId \in 0..MaxMessageId
  /\ hasJoined \in BOOLEAN
  /\ others = [CONNECTING |-> 0, OPEN |-> 0, CLOSING |-> 0]
  /\ timers = 0
  /\ lastOp = [name |-> "error", current |-> TRUE]
  /\ tx = <<>>
  /\ calls = <<>>
  /\ ret = "void"
  /\ threw = FALSE
  /\ joinState \in (IF hasJoined THEN {"sent", "acked"} ELSE {"none"})
  /\ staleTimers = 0
  /\ delivered = messageId
  /\ openedBy = "connect"

LineNext == \E data \in LineInputs : WsMessage(TRUE, data)

SpecLines == LineInit /\ [][LineNext]_vars

\* SpecBundles: the same session receives the transmissions of BundleInputs
BundleNext == \E data \in BundleInputs : WsMessage(TRUE, data)

SpecBundles == LineInit /\ [][BundleNext]_vars

(***************************************************************************)
(* SpecTimers: the transports and timers of a session alone, with room for *)
(* MaxPending timers at once: the caller connects and disconnects, the     *)
(* transports open and close, the timers fire.                             *)
(***************************************************************************)
TimerNext ==
  \/ \E c \in ChannelInputs, cbs \in CallbackInputs :
        connect(c, cbs[1], cbs[2])
  \/ disconnect
  \/ \E current \in BOOLEAN : WsOpen(current)
  \/ \E current \in BOOLEAN, state \in {"CONNECTING", "OPEN", "CLOSING"} :
        WsCloseWithin(MaxPending, current, state)
  \/ \E stale \in BOOLEAN : TimerFire(stale)

SpecTimers == Init /\ [][TimerNext]_vars

(***************************************************************************)
(* SpecChange: a session whose caller connects once, to the channel        *)
(* FirstChannel, and calls changeChannel only while Joined, with the       *)
(* channel LaterChannel.  Its transports open, receive the lines of the    *)
(* handshake and close, and its reconnect timers fire.  A session of this  *)
(* specification whose stored channel is LaterChannel has been through     *)
(* changeChannel while Joined.                                             *)
(***************************************************************************)
FirstChannel == <<"A">>
LaterChannel == <<"b">>

ChangeNext ==
  \/ \E cbs \in CallbackInputs :
        lastOp.name = "new" /\ connect(FirstChannel, cbs[1], cbs[2])
  \/ ConnState = "Joined" /\ changeChannel(LaterChannel)
  \/ WsOpen(TRUE)
  \/ \E data \in HandshakeInputs : WsMessage(TRUE, data)
  \/ \E state \in {"CONNECTING", "OPEN"} : WsClose(TRUE, state)
  \/ TimerFire(FALSE)

SpecChange == Init /\ [][ChangeNext]_vars /\ TimersFire

(***************************************************************************)
(* SpecHandshake: the first connection of a session, with no close, no     *)
(* disconnect() and no further connect() or changeChannel().  The          *)
(* transport opens and the server goes on sending the welcome line and     *)
(* the join confirmation (the premises of the scenario of section 4.2),    *)
(* between keep-alives and chat lines; the caller may send chat text.      *)
(***************************************************************************)
ServerInputs == HandshakeInputs \cup {L_Ping, L_Privmsg}

HandshakeNext ==
  \/ \E c \in ChannelInputs, cbs \in CallbackInputs :
        lastOp.name = "new" /\ connect(c, cbs[1], cbs[2])
  \/ \E text \in TextInputs : sendMessage(text)
  \/ WsOpen(TRUE)
  \/ \E data \in ServerInputs : WsMessage(TRUE, data)
  \/ WsError(TRUE)

ServerCooperates ==
  /\ WF_vars(WsOpen(TRUE))
  /\ WF_vars(WsMessage(TRUE, L_Welcome))
  /\ WF_vars(WsMessage(TRUE, L_Join))

SpecHandshake == Init /\ [][HandshakeNext]_vars /\ ServerCooperates

(***************************************************************************)
(* SpecRebuild: a caller that switches by teardown and rebuild: connect()  *)
(* is called on a session that stores no channel only, that is on a new    *)
(* session or after disconnect().  Everything else is as in Spec.          *)
(***************************************************************************)
RebuildNext ==
  \/ \E c \in ChannelInputs, cbs \in CallbackInputs :
        channel = NullStr /\ connect(c, cbs[1], cbs[2])
  \/ \E text \in TextInputs : sendMessage(text)
  \/ \E c \in ChannelInputs : changeChannel(c)
  \/ disconnect
  \/ \E current \in BOOLEAN : WsOpen(current)
  \/ \E current \in BOOLEAN, data \in DataInputs : WsMessage(current, data)
  \/ \E current \in BOOLEAN : WsError(current)
  \/ \E current \in BOOLEAN, state \in {"CONNECTING", "OPEN", "CLOSING"} :
        WsClose(current, state)
  \/ \E stale \in BOOLEAN : TimerFire(stale)

SpecRebuild == Init /\ [][RebuildNext]_vars

TypeOK ==
  /\ ws = NullWs \/ ws.readyState \in {"CONNECTING", "OPEN", "CLOSED"}
  /\ reconnectAttempts \in 0..maxReconnectAttempts
  /\ messageId \in 0..MaxMessageId
  /\ hasJoined \in BOOLEAN
  /\ \A state \in {"CONNECTING", "OPEN", "CLOSING"} :
       others[state] \in 0..MaxSockets
  /\ LiveSockets <= MaxSockets
  /\ timers \in 0..MaxTimers
  /\ staleTimers \in 0..timers
  /\ delivered \in 0..messageId

(***************************************************************************)
(* Claims.                                                                 *)
(***************************************************************************)
\* the lines of the last message event that are not PING lines and contain
\* 001: the AuthAck lines of section 4.1
AuthAckLines(data) ==
  {i \in 1..Len(DataLines(data)) :
     /\ ~LineTests(DataLines(data)[i]).startsWithPING
     /\ LineTests(DataLines(data)[i]).includes001}

\* every line of the transmission begins with PING
OnlyPings(data) ==
  \A i \in 1..Len(DataLines(data)) :
    LineTests(DataLines(data)[i]).startsWithPING

\* C1: sendMessage called in any state other than Joined returns false,
\* transmits nothing and delivers no echo.
C1_SendNotJoinedFails ==
  (lastOp.name = "sendMessage" /\ lastOp.pre # "Joined")
    => (ret = "false" /\ tx = <<>> /\ calls = <<>>)

\* C2: sendMessage(text) while Joined to channel c transmits exactly the
\* line PRIVMSG #c :text, returns true, and delivers exactly one ChatMessage
\* to onMessage, with the session's lowercased login, the self-color, the
\* text, and an id number above every id delivered before.
C2_SendJoinedEchoes ==
  [][(lastOp'.name = "sendMessage" /\ lastOp'.pre = "Joined")
       => /\ ret' = "true"
          /\ ~threw'
          /\ tx' = <<S_PRIVMSGCMD \o channel \o S_SPCOLON \o lastOp'.text>>
          /\ Len(calls') = 1
          /\ calls'[1].fn = "onMessage"
          /\ calls'[1].cb = onMessage
          /\ calls'[1].msg.username = username
          /\ username = ToLowerCase(username)
          /\ calls'[1].msg.color = SelfColor
          /\ calls'[1].msg.message = lastOp'.text
          /\ calls'[1].msg.id = MsgId(calls'[1].msg.num)
          /\ calls'[1].msg.num > delivered]_vars

\* a send while Joined, after an earlier message was delivered
C2_Witness ==
  /\ lastOp.name = "sendMessage"
  /\ lastOp.pre = "Joined"
  /\ ret = "true"
  /\ delivered >= 2

\* C3: no reconnect timer scheduled before a disconnect() ever opens a new
\* transport.
C3_NoReconnectAfterDisconnect ==
  ~(lastOp.name = "timer" /\ lastOp.stale /\ lastOp.connected)

\* C4: once a close of the current transport found the reconnect budget
\* used up and scheduled nothing, the session stays Disconnected unless the
\* caller calls connect.
C4_ExhaustedStaysDisconnected ==
  [][(/\ lastOp.name = "close"
      /\ lastOp.current
      /\ ~lastOp.scheduled
      /\ lastOp'.name # "connect")
       => ConnState' = "Disconnected"]_vars

\* C5: on a transport opened by an automatic reconnect, the first AuthAck
\* line (no JOIN has been sent on that transport yet) makes the session send
\* JOIN #<stored channel>.
C5_ReconnectRejoins ==
  (/\ lastOp.name = "message"
   /\ lastOp.current
   /\ openedBy = "timer"
   /\ lastOp.pre = "Authenticating"
   /\ AuthAckLines(lastOp.data) # {})
    => \E i \in 1..Len(tx) : tx[i] = S_JOINCMD \o channel

\* C6: at most one transport created by the session is connecting or open.
C6_OneLiveTransport ==
  others.CONNECTING + others.OPEN
    + (IF ws # NullWs /\ ws.readyState \in {"CONNECTING", "OPEN"}
       THEN 1 ELSE 0) <= 1

C8_PingOnlyPongs ==
  [][(lastOp'.name = "message" /\ OnlyPings(lastOp'.data))
       => /\ tx' = [i \in 1..Len(DataLines(lastOp'.data)) |-> S_PONG]
          /\ calls' = <<>>
          /\ ~threw'
          /\ UNCHANGED <<channel, hasJoined, reconnectAttempts,
                         messageId>>]_vars

\* C9: after disconnect() the transport reference, the channel and both
\* callbacks are cleared and the auth guard is false, in every state; it
\* raises no error, and a second call changes nothing.
C9_DisconnectIdempotent ==
  [][lastOp'.name = "disconnect"
       => /\ ws' = NullWs
          /\ channel' = NullStr
          /\ onMessage' = NullCb
          /\ onConnectionChange' = NullCb
          /\ hasJoined' = FALSE
          /\ ~threw'
          /\ lastOp.name = "disconnect" => UNCHANGED <<progVars, envVars>>
    ]_vars

\* disconnect() called a second time
C9_Witness == lastOp.name = "disconnect" /\ lastOp.again

\* C10: disconnect() leaves reconnectAttempts and messageId as they were.
C10_DisconnectKeepsCounters ==
  [][lastOp'.name = "disconnect"
       => /\ reconnectAttempts' = reconnectAttempts
          /\ messageId' = messageId]_vars

\* disconnect() called with both counters above zero
C10_Witness ==
  /\ lastOp.name = "disconnect"
  /\ reconnectAttempts > 0
  /\ messageId > 0

\* C11: after disconnect() both callbacks are cleared, they stay cleared
\* through every transport event, timer firing and operation other than
\* connect, and while they are cleared no callback is invoked.
C11_NoCallbackAfterDisconnect ==
  [][/\ lastOp'.name = "disconnect"
          => (onMessage' = NullCb /\ onConnectionChange' = NullCb)
     /\ (/\ onMessage = NullCb
         /\ onConnectionChange = NullCb
         /\ lastOp'.name # "connect")
          => /\ calls' = <<>>
             /\ onMessage' = NullCb
             /\ onConnectionChange' = NullCb]_vars

\* a chat line arrives on a transport that is still open after disconnect()
C11_Witness ==
  /\ lastOp.name = "message"
  /\ lastOp.data = L_Privmsg
  /\ ~lastOp.current
  /\ ws = NullWs
  /\ onMessage = NullCb
  /\ channel = NullStr

\* C12: a close event raises no error and invokes onConnectionChange(false)
\* exactly once when that callback is registered (and nothing else); an
\* error event raises no error, invokes no callback and changes no field of
\* the session, no transport and no timer.
C12_FailuresOnlySignal ==
  [][/\ lastOp'.name = "close"
          => /\ ~threw'
             /\ calls' = IF onConnectionChange # NullCb
                         THEN <<[fn |-> "onConnectionChange",
                                 cb |-> onConnectionChange,
                                 connected |-> FALSE]>>
                         ELSE <<>>
     /\ lastOp'.name = "error"
          => /\ ~threw'
             /\ calls' = <<>>
             /\ UNCHANGED <<progVars, envVars>>]_vars

\* a close event that signalled the registered callback
C12_Witness ==
  /\ lastOp.name = "close"
  /\ Len(calls) = 1
  /\ calls[1].connected = FALSE
  /\ calls[1].cb = "c1"

\* C13: whenever the session is in Authenticating, Joining or Joined (the
\* transport of the ws field is open), the stored channel is set and
\* non-empty.
C13_OpenHasChannel ==
  ConnState \in {"Authenticating", "Joining", "Joined"}
    => (channel # NullStr /\ Len(channel) > 0)

\* the session is Joining right after a channel change on an open transport
C13_Witness ==
  /\ lastOp.name = "changeChannel"
  /\ ConnState = "Joining"
  /\ channel = ToLowerCase(lastOp.new)
  /\ channel # lastOp.old

\* C17: the close event of a transport that disconnect() closed (it was
\* CLOSING) does not increment reconnectAttempts and schedules no reconnect
\* timer.
C17_PlannedCloseNoReconnect ==
  [][(lastOp'.name = "close" /\ others'.CLOSING < others.CLOSING)
       => (reconnectAttempts' = reconnectAttempts /\ timers' = timers)]_vars

\* C18: when a transport that an automatic reconnect opened closes again
\* after its open event, the reconnect scheduled then has a longer delay
\* than the first delay, the one of attempt 1.
C18_BackoffGrowsAcrossCycles ==
  [][(/\ lastOp'.name = "close"
      /\ lastOp'.current
      /\ lastOp'.scheduled
      /\ ws.readyState = "OPEN"
      /\ openedBy = "timer")
       => ReconnectDelay(reconnectAttempts') > ReconnectDelay(1)]_vars

\* C19: only a transport-open event sets reconnectAttempts to 0; no other
\* operation or event lowers it, so a close that finds the budget used up
\* (also the close of a transport a later connect() created and that never
\* opened) schedules no reconnect.
C19_OnlyOpenResets ==
  [][/\ lastOp'.name = "open" => reconnectAttempts' = 0
     /\ lastOp'.name # "open" => reconnectAttempts' >= reconnectAttempts
     /\ (lastOp'.name = "close"
           /\ reconnectAttempts = maxReconnectAttempts)
          => (timers' = timers /\ ~lastOp'.scheduled)]_vars

\* connect() called by the caller after the budget was used up
C19_Witness ==
  /\ lastOp.name = "connect"
  /\ reconnectAttempts = maxReconnectAttempts
  /\ timers = 0

\* C20: reconnectAttempts is always between 0 and 5, and a close event
\* increments it by exactly 1 when it is below 5 and leaves it at 5
\* otherwise.
C20_AttemptsBounded ==
  [][/\ reconnectAttempts \in 0..maxReconnectAttempts
     /\ reconnectAttempts' \in 0..maxReconnectAttempts
     /\ lastOp'.name = "close"
          => reconnectAttempts' =
               IF reconnectAttempts < maxReconnectAttempts
               THEN reconnectAttempts + 1
               ELSE maxReconnectAttempts]_vars

\* a close event that found the counter at 5 and left it there
C20_Witness ==
  /\ lastOp.name = "close"
  /\ ~lastOp.scheduled
  /\ reconnectAttempts = maxReconnectAttempts

\* the line contains PRIVMSG and no occurrence of ' :' after it
NoSeparatorAfterPrivmsg(line) ==
  /\ Includes(line, S_PRIVMSG)
  /\ \A q \in 1..Len(line) :
       MatchesAt(line, S_SPCOLON, q)
         => \A p \in 1..q : ~MatchesAt(line, S_PRIVMSG, p)

\* C15: a transmission whose lines contain PRIVMSG but no ' :' after it
\* invokes onMessage for none of them, raises no error and leaves
\* messageId as it was.
C15_NoSeparatorNoEvent ==
  [][(/\ lastOp'.name = "message"
      /\ \A i \in 1..Len(DataLines(lastOp'.data)) :
           NoSeparatorAfterPrivmsg(DataLines(lastOp'.data)[i]))
       => /\ \A k \in 1..Len(calls') : calls'[k].fn # "onMessage"
          /\ ~threw'
          /\ messageId' = messageId]_vars

\* such a line, with tags and prefix, reached the session while Joined
C15_Witness ==
  /\ lastOp.name = "message"
  /\ lastOp.data = L_NoBody
  /\ lastOp.pre = "Joined"
  /\ onMessage # NullCb
  /\ calls = <<>>

\* the prefix login of the part of the line that precedes the PRIVMSG
\* command, undefined if there is none
LoginBeforeCommand(line) ==
  PrefixLogin(Substring(line, 0, IndexOf(line, S_PRIVMSG)))

\* the username section 4.1 prescribes: display-name tag, else the login of
\* the prefix that precedes the command, else "unknown"
ExpectedUsername(line) ==
  IF Truthy(TagValue(LineTags(line), S_displayname))
  THEN TagValue(LineTags(line), S_displayname)
  ELSE IF Truthy(LoginBeforeCommand(line)) THEN LoginBeforeCommand(line)
  ELSE S_unknown

\* C16: the ChatMessage delivered for a chat line carries the display-name
\* tag, else the login of the prefix that precedes PRIVMSG, else "unknown".
C16_UsernamePrecedence ==
  (/\ lastOp.name = "message"
   /\ Len(DataLines(lastOp.data)) = 1
   /\ Len(calls) = 1
   /\ calls[1].fn = "onMessage")
    => calls[1].msg.username = ExpectedUsername(DataLines(lastOp.data)[1])

\* the delays section 4.3 lists for consecutive failures, in milliseconds
DelaySequence == <<2000, 4000, 8000, 16000, 30000>>

\* C21: a close event that schedules a reconnect uses the delay
\* min(1000 * 2^n, 30000) ms for n = reconnectAttempts after its increment:
\* the n-th failure in a row waits the n-th of 2000, 4000, 8000, 16000,
\* 30000 ms, which is no less than the delays of the failures before it and
\* never above 30000 ms.
C21_BackoffDelays ==
  (lastOp.name = "close" /\ lastOp.scheduled)
    => /\ reconnectAttempts \in 1..Len(DelaySequence)
       /\ lastOp.delay = DelaySequence[reconnectAttempts]
       /\ lastOp.delay <= 30000
       /\ \A k \in 1..(reconnectAttempts - 1) :
            DelaySequence[k] <= lastOp.delay

\* the fifth failure in a row, scheduled with the capped delay
C21_Witness ==
  /\ lastOp.name = "close"
  /\ lastOp.scheduled
  /\ reconnectAttempts = maxReconnectAttempts
  /\ lastOp.delay = 30000

\* reconnect timers that are pending and were not scheduled before a
\* disconnect()
FreshTimers == timers - staleTimers

\* the last step was the callback of such a timer
FreshFired == lastOp.name = "timer" /\ ~lastOp.stale

\* the model cannot take the step the claim is about: a disconnect() has
\* cleared the callbacks, or the transports of the model are used up
Excused == onMessage = NullCb \/ LiveSockets = MaxSockets

\* C22: while the callbacks are stored (no disconnect() since the connect),
\* a reconnect timer that a close scheduled eventually fires (also when one
\* has just fired and another is pending), unless a disconnect() comes
\* first or the transports of the model are used up; and when it fires it
\* creates exactly one new transport, which becomes the current one, and
\* leaves the stored channel and callbacks as they are.
C22_TimerReconnects ==
  /\ [][(lastOp'.name = "timer" /\ ~lastOp'.stale /\ onMessage # NullCb)
          => /\ lastOp'.connected
             /\ ws' = NewSocket
             /\ LiveSockets' = LiveSockets + 1
             /\ Truthy(channel)
             /\ UNCHANGED <<channel, onMessage, onConnectionChange>>]_vars
  /\ (FreshTimers > 0 /\ onMessage # NullCb /\ ~FreshFired)
       ~> (FreshFired \/ Excused)
  /\ \A k \in 1..MaxTimers :
       (FreshFired /\ FreshTimers = k /\ onMessage # NullCb)
         ~> (~FreshFired \/ FreshTimers < k \/ Excused)

\* the timer of an unplanned close fired and opened a transport for a
\* session that has no connection callback
C22_Witness ==
  /\ lastOp.name = "timer"
  /\ ~lastOp.stale
  /\ lastOp.connected
  /\ ws = NewSocket
  /\ openedBy = "timer"
  /\ reconnectAttempts >= 1
  /\ onConnectionChange = NullCb

\* the JOIN commands among the lines a step transmitted
JoinCommands(lines) ==
  {i \in 1..Len(lines) : StartsWith(lines[i], S_JOINCMD)}

\* C23: a message event sends at most one JOIN, and none once the auth
\* guard has fired; the event that sends one fires the guard, and the guard
\* stays fired until disconnect() ends the connection.
C23_AuthAckOnce ==
  [][/\ lastOp'.name = "message"
          => /\ Cardinality(JoinCommands(tx'))
                  <= (IF hasJoined THEN 0 ELSE 1)
             /\ JoinCommands(tx') # {} => hasJoined'
     /\ (hasJoined /\ lastOp'.name # "disconnect") => hasJoined']_vars

\* two welcome lines in one transmission, answered with one JOIN
C23_Witness ==
  /\ lastOp.name = "message"
  /\ lastOp.current
  /\ lastOp.data = L_Welcome \o S_CRLF \o L_Welcome
  /\ lastOp.pre = "Authenticating"
  /\ tx = <<S_JOINCMD \o channel>>

\* the auth commands of section 4.2, in order
AuthCommands == <<S_PASS \o token, S_NICK \o username, S_CAPREQ>>

\* the lines the last step transmitted on the transport its event belongs
\* to: the session transmits on the transport of the ws field only
OwnTx == IF lastOp.current THEN tx ELSE <<>>

\* C24: an open event makes the session transmit exactly PASS, NICK and
\* CAP REQ, in that order, on the transport that opened, on which no JOIN
\* was sent before; it transmits on no other transport.
C24_OpenAuthenticatesFirst ==
  lastOp.name = "open"
    => /\ OwnTx = AuthCommands
       /\ joinState = "none"
       /\ ~lastOp.current => tx = <<>>

\* the invocations of onConnectionChange(true) among the callbacks a step
\* invoked
ConnectedCalls ==
  {k \in 1..Len(calls) :
     calls[k].fn = "onConnectionChange" /\ calls[k].connected}

\* C25: onConnectionChange(true) is invoked only by a message event of the
\* current transport that takes the session from Joining to Joined (the
\* JOIN was sent before the event, or by an AuthAck line earlier in the
\* same transmission), and once.
C25_ConnectedOnlyWhenJoining ==
  ConnectedCalls # {}
    => /\ lastOp.name = "message"
       /\ lastOp.current
       /\ Cardinality(ConnectedCalls) = 1
       /\ joinState = "acked"
       /\ \/ lastOp.pre = "Joining"
          \/ lastOp.pre = "Authenticating" /\ JoinCommands(tx) # {}

\* the order of the phases of section 4.2
PhaseAfter(phase) ==
  CASE phase = "Disconnected" -> "Connecting"
    [] phase = "Connecting" -> "Authenticating"
    [] phase = "Authenticating" -> "Joining"
    [] phase = "Joining" -> "Joined"
    [] OTHER -> "none"

\* the last step was the AuthAck of the first connection, answered with
\* JOIN for the stored channel
JoinSent ==
  /\ lastOp.name = "message"
  /\ lastOp.pre = "Authenticating"
  /\ tx = <<S_JOINCMD \o channel>>
  /\ ConnState = "Joining"

\* the last step was the JoinAck, signalled to the connection callback if
\* there is one
JoinSignalled ==
  /\ lastOp.name = "message"
  /\ lastOp.pre = "Joining"
  /\ ConnState = "Joined"
  /\ onConnectionChange # NullCb
       => calls = <<[fn |-> "onConnectionChange", cb |-> onConnectionChange,
                     connected |-> TRUE]>>

\* C26: on the first connect of a session, with a transport that opens and
\* a server that sends the welcome line and the join confirmation, and
\* with no close and no disconnect(), the phase only ever moves to the next
\* one of Connecting, Authenticating, Joining, Joined; the welcome line
\* received in Authenticating is answered with JOIN #channel and the join
\* confirmation received in Joining invokes onConnectionChange(true); and
\* from Connecting on both eventually happen.
C26_HandshakeCompletes ==
  /\ [][/\ ConnState' # ConnState => ConnState' = PhaseAfter(ConnState)
        /\ (ConnState = "Authenticating" /\ lastOp'.name = "message"
               /\ lastOp'.data = L_Welcome) => JoinSent'
        /\ (ConnState = "Joining" /\ lastOp'.name = "message"
               /\ lastOp'.data = L_Join) => JoinSignalled']_vars
  /\ ConnState = "Connecting" ~> JoinSent
  /\ ConnState = "Connecting" ~> JoinSignalled

\* the join confirmation has been signalled to the connection callback of
\* a first connection to channel 'a'
C26_Witness ==
  /\ JoinSignalled
  /\ openedBy = "connect"
  /\ reconnectAttempts = 0
  /\ channel = <<"a">>
  /\ Len(calls) = 1

\* the lines of the transmission that are not PING lines and contain JOIN
JoinLines(data) ==
  {i \in 1..Len(DataLines(data)) :
     /\ ~LineTests(DataLines(data)[i]).startsWithPING
     /\ LineTests(DataLines(data)[i]).includesJOIN}

\* C27: the transport a connect() of the caller created after disconnect()
\* (or on a new session) stays the transport of the session while the
\* caller does not act and it does not close; the first AuthAck line it
\* delivers is answered with JOIN for the channel of that connect, and a
\* JoinAck it delivers in Joining invokes the onConnectionChange of that
\* connect with true; whatever the transports and timers of earlier
\* connections do in between.
C27_RebuildJoins ==
  [][/\ (openedBy = "connect" /\ lastOp'.name = "timer") => ws' = ws
     /\ (/\ openedBy = "connect"
         /\ lastOp'.name = "message"
         /\ lastOp'.current
         /\ ConnState = "Authenticating"
         /\ AuthAckLines(lastOp'.data) # {})
          => \E i \in 1..Len(tx') : tx'[i] = S_JOINCMD \o channel
     /\ (/\ openedBy = "connect"
         /\ lastOp'.name = "message"
         /\ lastOp'.current
         /\ ConnState = "Joining"
         /\ JoinLines(lastOp'.data) # {}
         /\ onConnectionChange # NullCb)
          => \E k \in 1..Len(calls') :
                calls'[k] = [fn |-> "onConnectionChange",
                             cb |-> onConnectionChange,
                             connected |-> TRUE]]_vars

\* C28: sendMessage and changeChannel raise no error in any state, and
\* transmit only when the transport of the session is open.
C28_SendAndChangeNeverRaise ==
  lastOp.name \in {"sendMessage", "changeChannel"}
    => /\ ~threw
       /\ tx # <<>>
            => lastOp.pre \in {"Authenticating", "Joining", "Joined"}

\* the messages a step delivered to onMessage, by position in calls
Deliveries(cs) == {k \in 1..Len(cs) : cs[k].fn = "onMessage"}

\* C29: messageId never decreases and changes in no step other than a
\* message event or a sendMessage; every ChatMessage delivered carries the
\* id msg-<n> of a number n above the number of every message delivered
\* before it, in earlier steps and earlier in the same step, and its id
\* differs from the id of every lower number.
C29_MessageIdsIncrease ==
  [][/\ messageId' >= messageId
     /\ lastOp'.name \notin {"message", "sendMessage"}
          => (messageId' = messageId /\ Deliveries(calls') = {})
     /\ \A k \in Deliveries(calls') :
          /\ calls'[k].msg.id = MsgId(calls'[k].msg.num)
          /\ calls'[k].msg.num > delivered
          /\ calls'[k].msg.num <= messageId'
          /\ \A j \in Deliveries(calls') :
               j < k => calls'[j].msg.num < calls'[k].msg.num
          /\ \A n \in 0..(calls'[k].msg.num - 1) :
               MsgId(n) # calls'[k].msg.id]_vars

\* a chat text echoed as msg-2 on the transport of a connect() that
\* followed a disconnect(), after an earlier message was delivered as msg-1
C29_Witness ==
  /\ lastOp.name = "sendMessage"
  /\ Len(calls) = 1
  /\ calls[1].msg.id = <<"m","s","g","-","2">>
  /\ others.CLOSING > 0

\* the rule of section 4.1 that classifies the line, the first that matches
\* in the order Ping, AuthAck, JoinAck, ChatMessage, when the auth guard is
\* fired and the stored channel is ch
LineClass(line, fired, ch) ==
  IF StartsWith(line, S_PING) THEN "Ping"
  ELSE IF Includes(line, S_001) /\ ~fired THEN "AuthAck"
  ELSE IF Includes(line, S_JOIN) /\ Truthy(ch) THEN "JoinAck"
  ELSE IF Includes(line, S_PRIVMSG) THEN "ChatMessage"
  ELSE "None"

\* C30: a line received on the open transport has the effect of its class
\* and of no other: Ping transmits PONG; AuthAck fires the guard and
\* transmits JOIN for the stored channel; JoinAck invokes
\* onConnectionChange(true); ChatMessage invokes onMessage at most once; a
\* line of no class transmits nothing, invokes nothing and changes no
\* field.  No line has more than one effect.
C30_FirstMatchingRule ==
  [][(lastOp'.name = "message" /\ Len(DataLines(lastOp'.data)) = 1)
       => LET class == LineClass(DataLines(lastOp'.data)[1], hasJoined,
                                 channel)
          IN /\ ~threw'
             /\ Len(tx') + Len(calls') <= 1
             /\ class = "Ping"
                  => /\ tx' = <<S_PONG>>
                     /\ UNCHANGED <<hasJoined, messageId>>
             /\ class = "AuthAck"
                  => /\ tx' = <<S_JOINCMD \o channel>>
                     /\ hasJoined'
                     /\ messageId' = messageId
             /\ class = "JoinAck"
                  => /\ calls' = IF onConnectionChange # NullCb
                                 THEN <<[fn |-> "onConnectionChange",
                                         cb |-> onConnectionChange,
                                         connected |-> TRUE]>>
                                 ELSE <<>>
                     /\ tx' = <<>>
                     /\ UNCHANGED <<hasJoined, messageId>>
             /\ class = "ChatMessage"
                  => /\ tx' = <<>>
                     /\ Deliveries(calls') = 1..Len(calls')
                     /\ hasJoined' = hasJoined
             /\ class = "None"
                  => /\ tx' = <<>>
                     /\ calls' = <<>>
                     /\ UNCHANGED <<progVars, envVars>>]_vars

\* a chat line whose text contains JOIN and 001, received after the auth
\* guard fired: it is a JoinAck
C30_Witness ==
  /\ lastOp.name = "message"
  /\ lastOp.data = L_ChatJoin001
  /\ hasJoined
  /\ tx = <<>>
  /\ Len(calls) = 1
  /\ calls[1].fn = "onConnectionChange"

\* the body of a chat line: the text after the first ' :' that follows the
\* PRIVMSG command
ChatBody(line) ==
  LET p == CHOOSE i \in 1..Len(line) :
             /\ MatchesAt(line, S_PRIVMSG, i)
             /\ \A j \in 1..(i - 1) : ~MatchesAt(line, S_PRIVMSG, j)
      q == CHOOSE i \in p..Len(line) :
             /\ MatchesAt(line, S_SPCOLON, i)
             /\ \A j \in p..(i - 1) : ~MatchesAt(line, S_SPCOLON, j)
  IN SubSeq(line, q + 2, Len(line))

\* the events section 4.1 prescribes for a sequence of lines, in order,
\* when the auth guard is fired and the counter is mid before the first
ExpectedOne(line, fired, mid) ==
  LET class == LineClass(line, fired, channel)
  IN IF class = "Ping" THEN <<[kind |-> "tx", line |-> S_PONG]>>
     ELSE IF class = "AuthAck"
       THEN <<[kind |-> "tx", line |-> S_JOINCMD \o channel]>>
     ELSE IF class = "JoinAck" /\ onConnectionChange # NullCb
       THEN <<[kind |-> "call", fn |-> "onConnectionChange",
               connected |-> TRUE]>>
     ELSE IF /\ class = "ChatMessage"
             /\ ~NoSeparatorAfterPrivmsg(line)
             /\ onMessage # NullCb
       THEN <<[kind |-> "call", fn |-> "onMessage", num |-> mid + 1,
               text |-> ChatBody(line)]>>
     ELSE <<>>

RECURSIVE ExpectedEvents(_, _, _)
ExpectedEvents(lines, fired, mid) ==
  IF lines = <<>> THEN <<>>
  ELSE LET line == Head(lines)
           class == LineClass(line, fired, channel)
       IN ExpectedOne(line, fired, mid)
            \o ExpectedEvents(
                 Tail(lines),
                 fired \/ class = "AuthAck",
                 IF class = "ChatMessage" /\ ~NoSeparatorAfterPrivmsg(line)
                 THEN mid + 1 ELSE mid)

\* a callback invocation as an event
CallEvent(call) ==
  IF call.fn = "onMessage"
  THEN [kind |-> "call", fn |-> "onMessage", num |-> call.msg.num,
        text |-> call.msg.message]
  ELSE [kind |-> "call", fn |-> call.fn, connected |-> call.connected]

\* the transmissions and callback invocations of a step as one sequence, in
\* the order the step made them
RECURSIVE ActualEvents(_, _, _)
ActualEvents(order, txs, cs) ==
  IF order = <<>> THEN <<>>
  ELSE IF Head(order) = "tx"
    THEN <<[kind |-> "tx", line |-> Head(txs)]>>
           \o ActualEvents(Tail(order), Tail(txs), cs)
  ELSE <<CallEvent(Head(cs))>> \o ActualEvents(Tail(order), txs, Tail(cs))

\* C31: a transmission that the server builds by joining segments with CR LF
\* has, in this order, exactly the effects of its non-empty segments taken
\* one after the other as lines: one PONG, JOIN, onConnectionChange(true) or
\* onMessage per line according to its class, transmissions and callbacks
\* interleaved as the lines are; empty segments and a line feed without
\* carriage return start no line.
C31_BundleInLineOrder ==
  [][lastOp'.name = "message"
       => \E b \in Bundles :
            /\ JoinCRLF(b) = lastOp'.data
            /\ ~threw'
            /\ Len(lastOp'.order) = Len(tx') + Len(calls')
            /\ ActualEvents(lastOp'.order, tx', calls')
                 = ExpectedEvents(SelectSeq(b, NonEmptyLine), hasJoined,
                                  messageId)]_vars

\* a keep-alive, an empty segment, a chat line and a keep-alive in one
\* transmission: PONG, onMessage, PONG
C31_Witness ==
  /\ lastOp.name = "message"
  /\ lastOp.data = JoinCRLF(<<L_Ping, <<>>, L_Privmsg, L_Ping>>)
  /\ lastOp.order = <<"tx", "call", "tx">>
  /\ tx = <<S_PONG, S_PONG>>
  /\ calls[1].fn = "onMessage"

\* C32: a close or message event of a transport that is not the session's
\* current one invokes no callback, transmits nothing, leaves
\* reconnectAttempts and the auth guard as they were and schedules no
\* reconnect timer.
C32_StaleEventsIgnored ==
  [][(lastOp'.name \in {"close", "message"} /\ ~lastOp'.current)
       => /\ calls' = <<>>
          /\ tx' = <<>>
          /\ reconnectAttempts' = reconnectAttempts
          /\ hasJoined' = hasJoined
          /\ timers' = timers]_vars

\* C33: at no time does the session have more than one reconnect timer
\* pending.
C33_OneTimerPending == timers <= 1

\* what follows the first space of s
AfterFirstSpace(s) == SubstringFrom(s, IndexOf(s, S_SP) + 1)

\* the line without its tags ('@' up to the first space) and without its
\* prefix (':' up to the next space): the command and its parameters
CommandPart(line) ==
  LET untagged == IF StartsWith(line, S_AT) THEN AfterFirstSpace(line)
                  ELSE line
  IN IF StartsWith(untagged, <<":">>) THEN AfterFirstSpace(untagged)
     ELSE untagged

\* a well-formed chat line: the command is PRIVMSG and ' :' with a body
\* follows it
WellFormedChat(line) ==
  /\ StartsWith(CommandPart(line), S_PRIVMSG)
  /\ Includes(CommandPart(line), S_SPCOLON)

\* C34: a well-formed chat line received while Joined invokes onMessage
\* exactly once, with the body of the line as text, and has no other effect,
\* whatever the body contains.
C34_ChatDeliveredOnce ==
  (/\ lastOp.name = "message"
   /\ lastOp.pre = "Joined"
   /\ lastOp.data \in LineInputs
   /\ WellFormedChat(lastOp.data)
   /\ onMessage # NullCb)
    => /\ Len(calls) = 1
       /\ calls[1].fn = "onMessage"
       /\ calls[1].msg.message = ChatBody(lastOp.data)
       /\ tx = <<>>

\* C35: once changeChannel has stored LaterChannel while Joined, the first
\* AuthAck line on a transport opened by an automatic reconnect makes the
\* session send JOIN for LaterChannel and not for the channel that was
\* passed to connect.
C35_ReconnectJoinsLatest ==
  (/\ lastOp.name = "message"
   /\ openedBy = "timer"
   /\ channel = ToLowerCase(LaterChannel)
   /\ lastOp.pre = "Authenticating"
   /\ AuthAckLines(lastOp.data) # {})
    => /\ \E i \in 1..Len(tx) : tx[i] = S_JOINCMD \o ToLowerCase(LaterChannel)
       /\ \A i \in 1..Len(tx) :
            tx[i] # S_JOINCMD \o ToLowerCase(FirstChannel)

\* the tags of the line, between '@' and the first space, each between two
\* semicolons
TagSection(line) ==
  IF StartsWith(line, S_AT)
  THEN S_SEMI \o Substring(line, 1, IndexOf(line, S_SP)) \o S_SEMI
  ELSE S_SEMI

\* the line has the tag key, with the empty value
EmptyTag(line, key) ==
  Includes(TagSection(line), S_SEMI \o key \o S_EQ \o S_SEMI)

\* a tag entry with a value
HasValue(entry) == entry # <<>> /\ entry[Len(entry)] # "="

\* the parts, with sep between them
RECURSIVE JoinWith(_, _)
JoinWith(parts, sep) ==
  IF Len(parts) = 0 THEN <<>>
  ELSE IF Len(parts) = 1 THEN parts[1]
  ELSE Head(parts) \o sep \o JoinWith(Tail(parts), sep)

\* the line as the server would send it without the tags that have no
\* value
WithoutEmptyTags(line) ==
  IF ~StartsWith(line, S_AT) THEN line
  ELSE LET kept == SelectSeq(
                     Split(Substring(line, 1, IndexOf(line, S_SP)), S_SEMI),
                     HasValue)
       IN IF kept = <<>> THEN AfterFirstSpace(line)
          ELSE S_AT \o JoinWith(kept, S_SEMI) \o S_SP
                 \o AfterFirstSpace(line)

\* C36: the ChatMessage delivered for a chat line with an empty color or
\* display-name tag is the one delivered for the same line without that
\* tag: it has no color if the color tag is empty, and if the display-name
\* tag is empty its username is the login of the prefix, or "unknown" for a
\* line without prefix (for a line whose only text of the form ':login!' is
\* the prefix before the command); neither field is the empty string.
C36_EmptyTagIsAbsent ==
  (/\ lastOp.name = "message"
   /\ lastOp.data \in LineInputs
   /\ Len(calls) = 1
   /\ calls[1].fn = "onMessage"
   /\ \/ EmptyTag(lastOp.data, S_color)
      \/ EmptyTag(lastOp.data, S_displayname))
    => /\ calls[1].msg.color
            = PrivmsgFields(WithoutEmptyTags(lastOp.data)).color
       /\ calls[1].msg.username
            = PrivmsgFields(WithoutEmptyTags(lastOp.data)).username
       /\ calls[1].msg.message = ChatBody(lastOp.data)
       /\ EmptyTag(lastOp.data, S_color) => calls[1].msg.color = Undefined
       /\ (/\ EmptyTag(lastOp.data, S_displayname)
           /\ PrefixLogin(lastOp.data) = LoginBeforeCommand(lastOp.data))
            => calls[1].msg.username
                 = IF Truthy(LoginBeforeCommand(lastOp.data))
                   THEN LoginBeforeCommand(lastOp.data)
                   ELSE S_unknown
       /\ calls[1].msg.username # <<>>
       /\ calls[1].msg.color # <<>>

\* a chat line with an empty color tag was delivered without color, under
\* its display-name
C36_Witness ==
  /\ lastOp.name = "message"
  /\ lastOp.data = L_EmptyColor
  /\ Len(calls) = 1
  /\ calls[1].fn = "onMessage"
  /\ calls[1].msg.color = Undefined
  /\ calls[1].msg.username = <<"A","l">>

====
